---- MODULE Spec2Model ----
(***************************************************************************)
(* Model of the 5Letters word-search core (src/core/parser.py,             *)
(* src/core/search.py, src/core/lexicon.py) and of its two hosts           *)
(* (src/bot.py search_words, src/examples/cli.py main).                    *)
(*                                                                         *)
(* Text.  A Python str is a sequence of characters; a character is named   *)
(* by an ASCII string (the module text is ASCII only):                     *)
(*   "a" U+0430  "b" U+0431  "v" U+0432  "g" U+0433  "d" U+0434            *)
(*   "e" U+0435  "zh" U+0436  "z" U+0437  "ii" U+0438  "j" U+0439          *)
(*   "k" U+043A  "l" U+043B  "m" U+043C  "n" U+043D  "o" U+043E            *)
(*   "p" U+043F  "r" U+0440  "s" U+0441  "t" U+0442  "u" U+0443            *)
(*   "f" U+0444  "h" U+0445  "c" U+0446  "ch" U+0447  "sh" U+0448          *)
(*   "shch" U+0449  "hard" U+044A  "y" U+044B  "soft" U+044C  "eh" U+044D  *)
(*   "yu" U+044E  "ya" U+044F  (the 32 letters U+0430..U+044F)             *)
(*   "yo" U+0451 (the accented variant of "e")                             *)
(*   "K" U+041A  "YO" U+0401 (capitals of "k" and "yo")                    *)
(*   "Idot" U+0130 (its lower() is the two characters "i" U+0069 and       *)
(*   "cdot" U+0307)                                                        *)
(*   "0".."9" ASCII digits, "sup2" U+00B2 (SUPERSCRIPT TWO), "ar3" U+0663  *)
(*   (ARABIC-INDIC DIGIT THREE), "%" "_" "+" "-" "!" and " " (space).      *)
(* So the word U+043A U+043E U+0448 U+043A U+0430 is <<"k","o","sh","k",   *)
(* "a">> (koshka).                                                         *)
(*                                                                         *)
(* Optional values.  None is the empty tuple and a present value v is the  *)
(* one-element tuple <<v>>, so that None and a value can be compared.      *)
(***************************************************************************)
EXTENDS Integers, Sequences, FiniteSets, TLC

VARIABLES
    pc,             \* position of the call or of the host's handler
    args,           \* arguments of the function under call
    ret,            \* its return value
    host,           \* "bot" (bot.py) or "cli" (examples/cli.py)
    sort_mode,      \* cli.py --sort: None, or "freq" / "alpha" / "none"
    WORDS,          \* the loaded corpus (bot.py WORDS, cli.py all_words)
    FREQ_MAP,       \* the loaded frequency table
    text,           \* the query text of the request being served
    params,         \* get_search_params' result for it, as an Optional
    filtered_words, \* filter_words' list, then the ranked list, as an Optional
    fstats,         \* filter_words' statistics, as an Optional
    reply           \* what the host answered: kind of answer

vars == <<pc, args, ret, host, sort_mode, WORDS, FREQ_MAP, text, params,
          filtered_words, fstats, reply>>

hostVars == <<host, sort_mode, WORDS, FREQ_MAP, text, params, filtered_words,
              fstats, reply>>

----------------------------------------------------------------------------
(* Optional values and Python's exceptions *)

None == <<>>

Some(v) == <<v>>

IsNone(x) == x = <<>>

Get(x) == x[1]

\* The result of a call that may raise: a value, or the exception raised.
Returned(v) == [raised |-> FALSE, value |-> v]

Raised(e) == [raised |-> TRUE, value |-> e]

----------------------------------------------------------------------------
(* Characters and Python's str methods on them *)

AsciiDigits == {"0", "1", "2", "3", "4", "5", "6", "7", "8", "9"}

\* The 32 letters U+0430..U+044F in code point order (search.py:92).
AlphabetOrder ==
    <<"a", "b", "v", "g", "d", "e", "zh", "z", "ii", "j", "k", "l", "m", "n", "o",
      "p", "r", "s", "t", "u", "f", "h", "c", "ch", "sh", "shch", "hard", "y",
      "soft", "eh", "yu", "ya">>

russian_alphabet == {AlphabetOrder[i] : i \in DOMAIN AlphabetOrder}

LowerLetters == russian_alphabet \cup {"yo", "i"}

UpperLetters == {"K", "YO", "Idot"}

\* str.isdigit(): true of every character with the Unicode Digit property,
\* which U+00B2 and U+0663 have as well as the ASCII digits.
isdigit(ch) == ch \in AsciiDigits \cup {"sup2", "ar3"}

\* str.isalpha()
isalpha(ch) == ch \in LowerLetters \cup UpperLetters

\* int(ch) is defined on decimal digits only: int of U+00B2 raises ValueError.
int_defined(ch) == ch \in AsciiDigits \cup {"ar3"}

int(ch) ==
    CASE ch = "0" -> 0 [] ch = "1" -> 1 [] ch = "2" -> 2 [] ch = "3" -> 3
      [] ch = "4" -> 4 [] ch = "5" -> 5 [] ch = "6" -> 6 [] ch = "7" -> 7
      [] ch = "8" -> 8 [] ch = "9" -> 9 [] ch = "ar3" -> 3

\* str.lower() of one character: a string, of two characters for U+0130.
lower_char(ch) ==
    CASE ch = "K" -> <<"k">>
      [] ch = "YO" -> <<"yo">>
      [] ch = "Idot" -> <<"i", "cdot">>
      [] OTHER -> <<ch>>

RECURSIVE lower(_)
lower(s) == IF s = <<>> THEN <<>> ELSE lower_char(Head(s)) \o lower(Tail(s))

\* ord(ch): the code point, which orders strings.
ord(ch) ==
    CASE ch = " " -> 32 [] ch = "!" -> 33 [] ch = "%" -> 37 [] ch = "+" -> 43
      [] ch = "-" -> 45 [] ch \in AsciiDigits -> 48 + int(ch) [] ch = "_" -> 95
      [] ch = "i" -> 105 [] ch = "sup2" -> 178 [] ch = "Idot" -> 304
      [] ch = "cdot" -> 775 [] ch = "YO" -> 1025 [] ch = "K" -> 1050
      [] ch \in russian_alphabet ->
           1071 + (CHOOSE i \in DOMAIN AlphabetOrder : AlphabetOrder[i] = ch)
      [] ch = "yo" -> 1105
      [] ch = "ar3" -> 1635

\* set(s): the set of the characters of a string.
set(s) == {s[i] : i \in DOMAIN s}

\* str.startswith(prefix)
startswith(s, prefix) ==
    /\ Len(s) >= Len(prefix)
    /\ SubSeq(s, 1, Len(prefix)) = prefix

\* s.split(sep): the segments between the occurrences of the character sep,
\* the empty ones kept.
RECURSIVE split_sep(_, _, _)
split_sep(s, sep, cur) ==
    IF s = <<>> THEN <<cur>>
    ELSE IF Head(s) = sep THEN <<cur>> \o split_sep(Tail(s), sep, <<>>)
    ELSE split_sep(Tail(s), sep, Append(cur, Head(s)))

\* s.split(): the maximal runs of non-whitespace characters.
split(s) == SelectSeq(split_sep(s, " ", <<>>), LAMBDA seg : seg # <<>>)

\* s.strip(): leading and trailing whitespace removed.
RECURSIVE lstrip(_)
lstrip(s) == IF s # <<>> /\ Head(s) = " " THEN lstrip(Tail(s)) ELSE s

RECURSIVE rstrip(_)
rstrip(s) ==
    IF s # <<>> /\ s[Len(s)] = " " THEN rstrip(SubSeq(s, 1, Len(s) - 1)) ELSE s

strip(s) == rstrip(lstrip(s))

\* " ".join(tokens)
RECURSIVE join(_)
join(tokens) ==
    IF tokens = <<>> THEN <<>>
    ELSE IF Len(tokens) = 1 THEN tokens[1]
    ELSE tokens[1] \o <<" ">> \o join(Tail(tokens))

----------------------------------------------------------------------------
(* parser.py: parse_antipattern *)

\* The words and the antipattern have 5 positions.
WordLen == 5

NoConstraints == [i \in 1..WordLen |-> None]

\* parser.py:48-53 and 61-66: the pending letters are unioned into the slot of
\* the current position, when there is one, it has letters and it is in 1..5.
save_position(constraints, current_pos, current_letters) ==
    IF ~IsNone(current_pos) /\ current_letters # <<>>
    THEN LET idx == Get(current_pos) - 1
         IN IF 0 <= idx /\ idx < WordLen
            THEN [constraints EXCEPT ![idx + 1] =
                    Some((IF IsNone(@) THEN {} ELSE Get(@)) \cup set(current_letters))]
            ELSE constraints
    ELSE constraints

\* parser.py:45-66: the compact format, scanned from character i on.
RECURSIVE scan_compact(_, _, _, _, _)
scan_compact(antipattern, i, constraints, current_pos, current_letters) ==
    IF i > Len(antipattern)
    THEN Returned(save_position(constraints, current_pos, current_letters))
    ELSE LET ch == antipattern[i]
         IN IF isdigit(ch)
            THEN IF int_defined(ch)
                 THEN scan_compact(antipattern, i + 1,
                        save_position(constraints, current_pos, current_letters),
                        Some(int(ch)), <<>>)
                 ELSE Raised("ValueError")
            ELSE IF isalpha(ch)
            THEN scan_compact(antipattern, i + 1, constraints, current_pos,
                              Append(current_letters, ch))
            ELSE scan_compact(antipattern, i + 1, constraints, current_pos,
                              current_letters)

\* parser.py:33-39: the legacy format: segments[1:6] of the split on "%" are the
\* slots 0..4, an empty segment leaving its slot alone.
parse_legacy(antipattern) ==
    LET segments == split_sep(antipattern, "%", <<>>)
        position_segments ==
            SubSeq(segments, 2, IF Len(segments) < 6 THEN Len(segments) ELSE 6)
    IN [pos \in 1..WordLen |->
          IF pos <= Len(position_segments) /\ position_segments[pos] # <<>>
          THEN Some(set(position_segments[pos]))
          ELSE None]

\* parse_antipattern(antipattern), antipattern an Optional string: a Returned
\* Optional list of 5 Optional sets, or Raised.
parse_antipattern(antipattern) ==
    IF IsNone(antipattern) \/ Get(antipattern) = <<>>
    THEN Returned(None)
    ELSE LET s == Get(antipattern)
             r == IF "%" \in set(s)
                  THEN Returned(parse_legacy(s))
                  ELSE scan_compact(s, 1, NoConstraints, None, <<>>)
         IN IF r.raised THEN r
            ELSE IF \A i \in 1..WordLen : IsNone(r.value[i])
            THEN Returned(None)
            ELSE Returned(Some(r.value))

----------------------------------------------------------------------------
(* parser.py: check_conflicts *)

\* sorted(S) for a set of characters: ascending code points.
RECURSIVE sorted_chars(_)
sorted_chars(S) ==
    IF S = {} THEN <<>>
    ELSE LET lo == CHOOSE c \in S : \A d \in S : ord(c) <= ord(d)
         IN <<lo>> \o sorted_chars(S \ {lo})

\* parser.py:94-97: the distinct letters the pattern fixes.
pattern_letters_of(pattern) ==
    IF IsNone(pattern) \/ Get(pattern) = <<>> THEN {}
    ELSE {ch \in set(Get(pattern)) : ch # "_"}

\* parser.py:99-103
excluded_conflict(pattern, excluded) ==
    LET both == pattern_letters_of(pattern) \cap excluded
    IN IF both # {}
       THEN << <<"Pattern requires excluded letters", sorted_chars(both)>> >>
       ELSE <<>>

\* A position check that stops at the first fixed position the antipattern
\* forbids.
antipattern_conflicts_first(pattern, antipattern_constraints, i) ==
    IF IsNone(antipattern_constraints) \/ Get(antipattern_constraints) = <<>>
       \/ IsNone(pattern) \/ Get(pattern) = <<>>
    THEN <<>>
    ELSE LET hits == {j \in i..Len(Get(pattern)) :
                         /\ Get(pattern)[j] # "_"
                         /\ ~IsNone(Get(antipattern_constraints)[j])
                         /\ Get(pattern)[j] \in Get(Get(antipattern_constraints)[j])}
         IN IF hits = {} THEN <<>>
            ELSE LET j == CHOOSE h \in hits : \A g \in hits : h <= g
                 IN << <<"Position forbidden by antipattern", j, Get(pattern)[j]>> >>

\* parser.py:105-113: one message for each fixed position whose letter the
\* antipattern forbids there; none when the antipattern is None or the empty
\* list, or the pattern None or the empty string (line 106).
RECURSIVE antipattern_conflicts(_, _, _)
antipattern_conflicts(pattern, antipattern_constraints, i) ==
    IF IsNone(antipattern_constraints) \/ Get(antipattern_constraints) = <<>>
       \/ IsNone(pattern) \/ Get(pattern) = <<>>
       \/ i > Len(Get(pattern))
    THEN <<>>
    ELSE LET ch == Get(pattern)[i]
             banned == Get(antipattern_constraints)[i]
             here == IF ch # "_" /\ ~IsNone(banned) /\ Get(banned) # {}
                        /\ ch \in Get(banned)
                     THEN << <<"Position forbidden by antipattern", i, ch>> >>
                     ELSE <<>>
         IN here \o antipattern_conflicts(pattern, antipattern_constraints, i + 1)

\* parser.py:116: the free positions are counted from the distinct fixed letters.
free_positions_of(pattern) ==
    IF IsNone(pattern) \/ Get(pattern) = <<>> THEN 5
    ELSE 5 - Cardinality(pattern_letters_of(pattern))

\* A space check that reports a conflict when the letters just fit.
space_conflict_tight(pattern, must_have) ==
    LET free_positions == free_positions_of(pattern)
        remaining_must_have == must_have \ (pattern_letters_of(pattern) \cap must_have)
    IN IF Cardinality(remaining_must_have) >= free_positions
       THEN << <<"Not enough free positions",
                 Cardinality(remaining_must_have), free_positions>> >>
       ELSE <<>>

\* parser.py:115-123
space_conflict(pattern, must_have) ==
    LET free_positions == free_positions_of(pattern)
        pattern_letters_in_must_have == pattern_letters_of(pattern) \cap must_have
        remaining_must_have == must_have \ pattern_letters_in_must_have
    IN IF Cardinality(remaining_must_have) > free_positions
       THEN << <<"Not enough free positions",
                 Cardinality(remaining_must_have), free_positions>> >>
       ELSE <<>>

\* check_conflicts(pattern, must_have, excluded, antipattern_constraints): the
\* list of conflict messages.
check_conflicts(pattern, must_have, excluded, antipattern_constraints) ==
    excluded_conflict(pattern, excluded)
      \o antipattern_conflicts(pattern, antipattern_constraints, 1)
      \o space_conflict(pattern, must_have)

----------------------------------------------------------------------------
(* parser.py: parse_input and get_search_params *)

EmptyParse == [excluded |-> <<>>, included |-> <<>>, pattern |-> <<>>,
               antipattern |-> <<>>]

\* A classify that merges a later excluded or required token into the earlier
\* one instead of replacing it.
classify_merging(result, arg) ==
    IF startswith(arg, <<"-">>)
    THEN IF ~startswith(arg, <<"-", "-">>)
         THEN [result EXCEPT !.excluded = @ \o Tail(arg)]
         ELSE result
    ELSE IF startswith(arg, <<"+">>)
    THEN [result EXCEPT !.included = @ \o Tail(arg)]
    ELSE IF Len(arg) = 5 /\ "_" \in set(arg)
    THEN [result EXCEPT !.pattern = arg]
    ELSE IF \E i \in DOMAIN arg : isdigit(arg[i])
    THEN [result EXCEPT !.antipattern = arg]
    ELSE result

\* parser.py:153-166: what one argument does to the result.
classify(result, arg) ==
    IF startswith(arg, <<"-">>)
    THEN IF ~startswith(arg, <<"-", "-">>)
         THEN [result EXCEPT !.excluded = Tail(arg)]
         ELSE result
    ELSE IF startswith(arg, <<"+">>)
    THEN [result EXCEPT !.included = Tail(arg)]
    ELSE IF Len(arg) = 5 /\ "_" \in set(arg)
    THEN [result EXCEPT !.pattern = arg]
    ELSE IF \E i \in DOMAIN arg : isdigit(arg[i])
    THEN [result EXCEPT !.antipattern = arg]
    ELSE result

RECURSIVE classify_all(_, _)
classify_all(result, arglist) ==
    IF arglist = <<>> THEN result
    ELSE classify_all(classify(result, Head(arglist)), Tail(arglist))

\* parse_input(input_text): the four raw strings.
parse_input(input_text) == classify_all(EmptyParse, split(input_text))

\* get_search_params(input_text): Returned the dictionary, or Raised.
get_search_params(input_text) ==
    LET parsed == parse_input(input_text)
        excluded == set(lower(parsed.excluded))
        must_have == set(lower(parsed.included))
        raw_pattern == parsed.pattern
        lowered == IF raw_pattern # <<>> THEN Some(lower(raw_pattern)) ELSE None
        pattern == IF ~IsNone(lowered) /\ Get(lowered) # <<>>
                      /\ Len(Get(lowered)) # 5
                   THEN None ELSE lowered
        raw_antipattern == parsed.antipattern
        antipattern == IF raw_antipattern # <<>>
                       THEN Some(lower(raw_antipattern)) ELSE None
        parsed_anti == parse_antipattern(antipattern)
    IN IF parsed_anti.raised THEN parsed_anti
       ELSE Returned([excluded |-> excluded,
                      must_have |-> must_have,
                      pattern |-> pattern,
                      antipattern_constraints |-> parsed_anti.value,
                      conflicts |-> check_conflicts(pattern, must_have, excluded,
                                                    parsed_anti.value),
                      raw_antipattern |-> antipattern])

----------------------------------------------------------------------------
(* search.py: filter_words *)

\* search.py:40: a letter of the word is excluded.
excluded_hit(word, excluded) ==
    excluded # {} /\ \E i \in DOMAIN word : word[i] \in excluded

\* search.py:45: a required letter is missing from the word.
must_have_miss(word, must_have) ==
    must_have # {} /\ ~(must_have \subseteq set(word))

\* A pattern check that starts one position late.
pattern_miss_late(word, pattern) ==
    /\ ~IsNone(pattern)
    /\ Get(pattern) # <<>>
    /\ \E i \in 2..Len(Get(pattern)) :
          Get(pattern)[i] # "_" /\ word[i] # Get(pattern)[i]

\* A pattern check that reads the word one position to the left of the
\* pattern's.
pattern_miss_shifted(word, pattern) ==
    /\ ~IsNone(pattern)
    /\ Get(pattern) # <<>>
    /\ \E i \in 2..Len(Get(pattern)) :
          Get(pattern)[i] # "_" /\ word[i - 1] # Get(pattern)[i]

\* search.py:50-58: a fixed position of the pattern differs from the word.
pattern_miss(word, pattern) ==
    /\ ~IsNone(pattern)
    /\ Get(pattern) # <<>>
    /\ \E i \in DOMAIN Get(pattern) :
          Get(pattern)[i] # "_" /\ word[i] # Get(pattern)[i]

\* search.py:61-69: the word carries a banned letter at its position.
antipattern_hit(word, antipattern_constraints) ==
    /\ ~IsNone(antipattern_constraints)
    /\ \E i \in DOMAIN Get(antipattern_constraints) :
          LET banned == Get(antipattern_constraints)[i]
          IN ~IsNone(banned) /\ Get(banned) # {} /\ word[i] \in Get(banned)

\* A loop body that tests the required letters before the excluded ones.
verdict_reordered(word, must_have, excluded, pattern, antipattern_constraints) ==
    IF must_have_miss(word, must_have) THEN "must_have"
    ELSE IF excluded_hit(word, excluded) THEN "excluded"
    ELSE IF pattern_miss(word, pattern) THEN "pattern"
    ELSE IF antipattern_hit(word, antipattern_constraints) THEN "antipattern"
    ELSE "match"

\* search.py:38-71: the first predicate the word fails, in the code's order, or
\* "match".
verdict(word, must_have, excluded, pattern, antipattern_constraints) ==
    IF excluded_hit(word, excluded) THEN "excluded"
    ELSE IF must_have_miss(word, must_have) THEN "must_have"
    ELSE IF pattern_miss(word, pattern) THEN "pattern"
    ELSE IF antipattern_hit(word, antipattern_constraints) THEN "antipattern"
    ELSE "match"

ZeroStats == [must_have |-> 0, excluded |-> 0, pattern |-> 0, antipattern |-> 0]

\* A loop body that puts a match in front of the result.
filter_step_prepending(acc, word, must_have, excluded, pattern, antipattern_constraints) ==
    LET v == verdict(word, must_have, excluded, pattern, antipattern_constraints)
    IN IF v = "match"
       THEN [acc EXCEPT !.result = <<word>> \o @]
       ELSE [acc EXCEPT !.filtered_stats[v] = @ + 1]

\* search.py:38-71: one pass of the loop body: the word is appended to the
\* result or counted under the predicate that rejected it.
filter_step(acc, word, must_have, excluded, pattern, antipattern_constraints) ==
    LET v == verdict(word, must_have, excluded, pattern, antipattern_constraints)
    IN IF v = "match"
       THEN [acc EXCEPT !.result = Append(@, word)]
       ELSE [acc EXCEPT !.filtered_stats[v] = @ + 1]

RECURSIVE filter_loop(_, _, _, _, _, _)
filter_loop(acc, words, must_have, excluded, pattern, antipattern_constraints) ==
    IF words = <<>> THEN acc
    ELSE filter_loop(
           filter_step(acc, Head(words), must_have, excluded, pattern,
                       antipattern_constraints),
           Tail(words), must_have, excluded, pattern, antipattern_constraints)

\* filter_words(words, must_have, excluded, pattern, antipattern_constraints):
\* the record of the list of matches and the rejection counts.
filter_words(words, must_have, excluded, pattern, antipattern_constraints) ==
    IF words = <<>>
    THEN [result |-> <<>>, filtered_stats |-> ZeroStats]
    ELSE filter_loop([result |-> <<>>, filtered_stats |-> ZeroStats],
                     words, must_have, excluded, pattern, antipattern_constraints)

\* A prefix computation that reads the pattern's second character.
get_search_prefixes_second(pattern, excluded, antipattern_constraints) ==
    LET antipattern_excluded_first ==
            IF /\ ~IsNone(antipattern_constraints)
               /\ Get(antipattern_constraints) # <<>>
               /\ ~IsNone(Get(antipattern_constraints)[1])
               /\ Get(Get(antipattern_constraints)[1]) # {}
            THEN Get(Get(antipattern_constraints)[1])
            ELSE {}
    IN IF ~IsNone(pattern) /\ Get(pattern) # <<>> /\ Get(pattern)[2] # "_"
       THEN LET first_letter == Get(pattern)[2]
            IN IF first_letter \in excluded
                  \/ first_letter \in antipattern_excluded_first
               THEN {}
               ELSE {first_letter}
       ELSE (russian_alphabet \ excluded) \ antipattern_excluded_first

\* get_search_prefixes(pattern, excluded, antipattern_constraints),
\* search.py:76-104: the first letters a match may have.
get_search_prefixes(pattern, excluded, antipattern_constraints) ==
    LET antipattern_excluded_first ==
            IF /\ ~IsNone(antipattern_constraints)
               /\ Get(antipattern_constraints) # <<>>
               /\ ~IsNone(Get(antipattern_constraints)[1])
               /\ Get(Get(antipattern_constraints)[1]) # {}
            THEN Get(Get(antipattern_constraints)[1])
            ELSE {}
    IN IF ~IsNone(pattern) /\ Get(pattern) # <<>> /\ Get(pattern)[1] # "_"
       THEN LET first_letter == Get(pattern)[1]
            IN IF first_letter \in excluded
                  \/ first_letter \in antipattern_excluded_first
               THEN {}
               ELSE {first_letter}
       ELSE (russian_alphabet \ excluded) \ antipattern_excluded_first

----------------------------------------------------------------------------
(* search.py: sort_by_frequency *)

\* The score search.py:127 gives a word that the table does not hold.
MissingScore == -100

\* Python's str comparison a < b: by code points, a proper prefix first.
RECURSIVE str_less(_, _)
str_less(a, b) ==
    IF b = <<>> THEN FALSE
    ELSE IF a = <<>> THEN TRUE
    ELSE IF ord(Head(a)) # ord(Head(b)) THEN ord(Head(a)) < ord(Head(b))
    ELSE str_less(Tail(a), Tail(b))

\* freq_map.get(w, -100.0)
freq_get(freq_map, w) ==
    IF w \in DOMAIN freq_map THEN freq_map[w] ELSE MissingScore

\* search.py:127: the key (-freq_map.get(w, -100.0), w), compared as a tuple.
freq_key_less(freq_map, a, b) ==
    LET ka == 0 - freq_get(freq_map, a)
        kb == 0 - freq_get(freq_map, b)
    IN ka < kb \/ (ka = kb /\ str_less(a, b))

\* The order sorted() sorts by: key None is the words' own order (sorted(words)),
\* key Some(freq_map) the order of search.py:127's key.
key_less(key, a, b) ==
    IF IsNone(key) THEN str_less(a, b) ELSE freq_key_less(Get(key), a, b)

\* sorted(): stable, so an element goes after those that are not greater.
RECURSIVE insert_sorted(_, _, _)
insert_sorted(sortedSeq, w, key) ==
    IF sortedSeq = <<>> THEN <<w>>
    ELSE IF key_less(key, w, Head(sortedSeq)) THEN <<w>> \o sortedSeq
    ELSE <<Head(sortedSeq)>> \o insert_sorted(Tail(sortedSeq), w, key)

RECURSIVE sorted_by(_, _, _)
sorted_by(done, rest, key) ==
    IF rest = <<>> THEN done
    ELSE sorted_by(insert_sorted(done, Head(rest), key), Tail(rest), key)

\* sorted(words)
sorted(words) == sorted_by(<<>>, words, None)

\* sort_by_frequency(words, freq_map)
sort_by_frequency(words, freq_map) ==
    IF DOMAIN freq_map = {}
    THEN sorted(words)
    ELSE sorted_by(<<>>, words, Some(freq_map))

----------------------------------------------------------------------------
(* lexicon.py: load_lexicon *)

\* lexicon.py:57: w.lower().replace(U+0451, U+0435)
RECURSIVE replace_yo(_)
replace_yo(s) ==
    IF s = <<>> THEN <<>>
    ELSE <<IF Head(s) = "yo" THEN "e" ELSE Head(s)>> \o replace_yo(Tail(s))

normalize_word(w) == replace_yo(lower(w))

\* lexicon.py:52-66: one line of the file, a record of a word and an Optional
\* zipf score: the word is appended, the highest score of a word is kept.
load_line(acc, obj) ==
    LET w == normalize_word(obj.word)
        fm == acc.freq_map
    IN [words_raw |-> Append(acc.words_raw, w),
        freq_map |->
            IF ~IsNone(obj.zipf)
               /\ (w \notin DOMAIN fm \/ Get(obj.zipf) > fm[w])
            THEN [x \in DOMAIN fm \cup {w} |->
                    IF x = w THEN Get(obj.zipf) ELSE fm[x]]
            ELSE fm]

RECURSIVE load_lines(_, _)
load_lines(acc, lines) ==
    IF lines = <<>> THEN acc ELSE load_lines(load_line(acc, Head(lines)), Tail(lines))

\* lexicon.py:68-74: the first occurrence of each word, in order.
RECURSIVE dedup(_, _)
dedup(seen, ws) ==
    IF ws = <<>> THEN <<>>
    ELSE IF Head(ws) \in seen THEN dedup(seen, Tail(ws))
    ELSE <<Head(ws)>> \o dedup(seen \cup {Head(ws)}, Tail(ws))

\* load_lexicon: the record of the corpus and the frequency table.
load_lexicon(lines) ==
    LET acc == load_lines([words_raw |-> <<>>, freq_map |-> <<>>], lines)
    IN [all_words |-> dedup({}, acc.words_raw), freq_map |-> acc.freq_map]

----------------------------------------------------------------------------
(* Inputs *)

koshka == <<"k", "o", "sh", "k", "a">>

myshka == <<"m", "y", "sh", "k", "a">>

pyshka == <<"p", "y", "sh", "k", "a">>

shapka == <<"sh", "a", "p", "k", "a">>

\* Sequences over S of length at most n, and those without a repeated element.
SeqsUpTo(S, n) == UNION {[1..k -> S] : k \in 0..n}

InjectiveSeqsUpTo(S, n) ==
    {q \in SeqsUpTo(S, n) : \A i, j \in DOMAIN q : q[i] = q[j] => i = j}

\* The calls of a function of the core are made by a client that holds no host
\* state.
NoHost ==
    /\ host = "none"
    /\ sort_mode = None
    /\ WORDS = <<>>
    /\ FREQ_MAP = <<>>
    /\ text = <<>>
    /\ params = None
    /\ filtered_words = None
    /\ fstats = None
    /\ reply = None

----------------------------------------------------------------------------
(* SpecParseAntipattern: calls of parse_antipattern *)

\* Longest antipattern string enumerated character by character.
MaxAntiLen == 3

AntiChars == {"1", "5", "9", "a", "b", "%", "sup2"}

CompactExample == <<"1", "a", "b", "5", "v">>

LegacyExample == <<"%", "a", "b", "%", "%", "%", "v">>

AntipatternInputs ==
    {None} \cup {Some(t) : t \in SeqsUpTo(AntiChars, MaxAntiLen)
                                 \cup {CompactExample, LegacyExample}}

InitParseAntipattern ==
    /\ pc = "call"
    /\ args \in {[antipattern |-> a] : a \in AntipatternInputs}
    /\ ret = None
    /\ NoHost

CallParseAntipattern ==
    /\ pc = "call"
    /\ ret' = parse_antipattern(args.antipattern)
    /\ pc' = "return"
    /\ UNCHANGED <<args, hostVars>>

NextParseAntipattern == CallParseAntipattern

SpecParseAntipattern == InitParseAntipattern /\ [][NextParseAntipattern]_vars

\* C3: parse_antipattern gives the compact example (1, U+0430, U+0431, 5, U+0432)
\* and the legacy example (%, U+0430, U+0431, %, %, %, U+0432) the same 5 slots:
\* slot 0 forbids the first two letters, slot 4 forbids the third, slots 1 to 3
\* are unconstrained.
ExampleSlots ==
    [NoConstraints EXCEPT ![1] = Some({"a", "b"}), ![5] = Some({"v"})]

C3_ExamplesParseAlike ==
    (pc = "return" /\ args.antipattern \in {Some(CompactExample), Some(LegacyExample)})
        => (~ret.raised /\ ret.value = Some(ExampleSlots))

----------------------------------------------------------------------------
(* SpecSort: calls of sort_by_frequency *)

\* Longest list of words sorted.
MaxSortLen == 3

SortWords == {koshka, myshka, pyshka}

\* Scores: a usual Zipf score or two, the score given to missing words, and one
\* below it.
Scores == {-200, -100, 3, 5}

FreqMaps == UNION {[D -> Scores] : D \in SUBSET SortWords}

InitSort ==
    /\ pc = "call"
    /\ args \in {[words |-> ws, freq_map |-> fm] :
                    ws \in SeqsUpTo(SortWords, MaxSortLen), fm \in FreqMaps}
    /\ ret = None
    /\ NoHost

CallSortByFrequency ==
    /\ pc = "call"
    /\ ret' = sort_by_frequency(args.words, args.freq_map)
    /\ pc' = "return"
    /\ UNCHANGED <<args, hostVars>>

NextSort == CallSortByFrequency

SpecSort == InitSort /\ [][NextSort]_vars

\* The number of occurrences of w in the list.
Count(ws, w) == Cardinality({i \in DOMAIN ws : ws[i] = w})

\* C4: with a non-empty table sort_by_frequency returns the words by descending
\* score, every word absent from the table after every word present in it, words
\* of equal score (or both absent) in ascending lexicographic order; with an
\* empty table it returns them in ascending lexicographic order.
C4_RankedAsClaimed ==
    pc = "return" =>
        /\ Len(ret) = Len(args.words)
        /\ \A w \in SortWords : Count(ret, w) = Count(args.words, w)
        /\ \A i, j \in DOMAIN ret : i < j =>
              LET a == ret[i]
                  b == ret[j]
                  fm == args.freq_map
              IN IF DOMAIN fm = {}
                 THEN ~str_less(b, a)
                 ELSE /\ ~(a \notin DOMAIN fm /\ b \in DOMAIN fm)
                      /\ (a \in DOMAIN fm /\ b \in DOMAIN fm) => fm[a] >= fm[b]
                      /\ \/ (a \in DOMAIN fm /\ b \in DOMAIN fm /\ fm[a] = fm[b])
                         \/ (a \notin DOMAIN fm /\ b \notin DOMAIN fm)
                         => ~str_less(b, a)

----------------------------------------------------------------------------
(* SpecParse: calls of parse_input and of get_search_params *)

\* Most tokens of a query.
MaxTokens == 3

\* Two tokens of each kind, among them a capital, the accented variant and a
\* digit that int() does not take, a flag-like token and a bare letter.
TokenPool ==
    { <<"-", "m", "p">>, <<"-", "o">>,
      <<"+", "k">>, <<"+", "yo">>,
      <<"_", "o", "_", "_", "_">>, <<"K", "_", "_", "_", "_">>,
      <<"2", "k">>, <<"sup2", "a">>,
      <<"-", "-", "k">>, <<"k">> }

\* Queries whose whitespace is not one space between tokens.
SpacedTexts ==
    { <<" ">>, <<" ", "+", "k", " ", " ", "-", "o", " ">> }

Texts == {join(q) : q \in SeqsUpTo(TokenPool, MaxTokens)} \cup SpacedTexts

InitParse ==
    /\ pc = "call"
    /\ args \in {[input_text |-> t] : t \in Texts}
    /\ ret = None
    /\ NoHost

CallParseInput ==
    /\ pc = "call"
    /\ ret' = parse_input(args.input_text)
    /\ pc' = "return_parse_input"
    /\ UNCHANGED <<args, hostVars>>

CallGetSearchParams ==
    /\ pc = "call"
    /\ ret' = get_search_params(args.input_text)
    /\ pc' = "return_get_search_params"
    /\ UNCHANGED <<args, hostVars>>

NextParse == CallParseInput \/ CallGetSearchParams

SpecParse == InitParse /\ [][NextParse]_vars

\* What lexicon.py:57 does to a stored word, done to a whole query.
normalize_text(t) == replace_yo(lower(t))

\* C5: get_search_params folds capitals and the accented variant before it
\* builds the constraint set: a query and its normalized spelling (lower case,
\* U+0451 written U+0435) give the same excluded set, required set, pattern and
\* antipattern.
C5_QueryNormalized ==
    pc = "return_get_search_params" =>
        LET n == get_search_params(normalize_text(args.input_text))
        IN /\ n.raised = ret.raised
           /\ ~ret.raised =>
                /\ ret.value.excluded = n.value.excluded
                /\ ret.value.must_have = n.value.must_have
                /\ ret.value.pattern = n.value.pattern
                /\ ret.value.antipattern_constraints = n.value.antipattern_constraints

\* The kind of a token, by its shape: a leading "-" (not "--"), a leading "+",
\* 5 characters with a "_", any digit; anything else is not interpreted.
Kind(arg) ==
    IF startswith(arg, <<"-", "-">>) THEN "ignored"
    ELSE IF startswith(arg, <<"-">>) THEN "excluded"
    ELSE IF startswith(arg, <<"+">>) THEN "included"
    ELSE IF Len(arg) = WordLen /\ "_" \in set(arg) THEN "pattern"
    ELSE IF \E i \in DOMAIN arg : isdigit(arg[i]) THEN "antipattern"
    ELSE "ignored"

Kinds == {"excluded", "included", "pattern", "antipattern"}

\* C6: get_search_params returns for every query and never raises, and the
\* tokens it cannot interpret change nothing in what it returns.
C6_NeverRaises ==
    pc = "return_get_search_params" =>
        /\ ~ret.raised
        /\ LET kept == SelectSeq(split(args.input_text),
                                 LAMBDA arg : Kind(arg) # "ignored")
               r == get_search_params(join(kept))
           IN ~r.raised /\ r.value = ret.value

\* The last token of a kind in a list of tokens, as an Optional.
LastOfKind(toks, kind) ==
    LET at == {i \in DOMAIN toks : Kind(toks[i]) = kind}
    IN IF at = {} THEN None
       ELSE Some(toks[CHOOSE i \in at : \A j \in at : j <= i])

\* What a token of a kind leaves in the result: the token, less the sign of an
\* excluded or a required token.
Payload(kind, arg) ==
    IF kind \in {"excluded", "included"} THEN Tail(arg) ELSE arg

Reorderings(n) ==
    {f \in [1..n -> 1..n] : \A i, j \in 1..n : f[i] = f[j] => i = j}

\* C9: parse_input's result holds, for each kind, what the last token of that
\* kind gives and nothing of an earlier one (the empty string when the query has
\* no token of the kind); and a reordering of the tokens that keeps the last
\* token of each kind gives the same result.
C9_LastOfEachKindWins ==
    pc = "return_parse_input" =>
        LET toks == split(args.input_text)
        IN /\ \A kind \in Kinds :
                ret[kind] = IF IsNone(LastOfKind(toks, kind)) THEN <<>>
                            ELSE Payload(kind, Get(LastOfKind(toks, kind)))
           /\ \A f \in Reorderings(Len(toks)) :
                LET moved == [i \in 1..Len(toks) |-> toks[f[i]]]
                IN (\A kind \in Kinds :
                        LastOfKind(moved, kind) = LastOfKind(toks, kind))
                   => parse_input(join(moved)) = ret

\* C9's case: a query with two tokens of one kind that differ, parsed.
C9_Witness ==
    /\ pc = "return_parse_input"
    /\ \E i, j \in DOMAIN split(args.input_text) :
          LET toks == split(args.input_text)
          IN /\ i < j
             /\ Kind(toks[i]) = "excluded"
             /\ Kind(toks[j]) = "excluded"
             /\ toks[i] # toks[j]
             /\ ret.excluded = Tail(toks[j])
    /\ Len(split(args.input_text)) = 3

----------------------------------------------------------------------------
(* SpecFilter: calls of filter_words *)

\* Most words of a corpus.
MaxCorpus == 3

\* Most positions a pattern fixes.
MaxFixed == 3

Lexicon == {koshka, myshka, pyshka, shapka}

\* A corpus holds no word twice (lexicon.py:68-74).
Corpora == InjectiveSeqsUpTo(Lexicon, MaxCorpus)

ExcludedSets == SUBSET {"m", "o"}

RequiredSets == SUBSET {"k", "a", "m"}

\* The pattern that fixes the letters of w at the positions of S.
Mask(w, S) == [i \in 1..WordLen |-> IF i \in S THEN w[i] ELSE "_"]

Patterns ==
    {None} \cup {Some(Mask(w, S)) :
                    w \in {koshka, pyshka},
                    S \in {T \in SUBSET (1..WordLen) : Cardinality(T) <= MaxFixed}}

Antipatterns ==
    { None,
      Some([NoConstraints EXCEPT ![1] = Some({"k", "m"})]),
      Some([NoConstraints EXCEPT ![2] = Some({"k"})]),
      Some([NoConstraints EXCEPT ![1] = Some({"p"}), ![3] = Some({"sh"}),
                                 ![4] = Some({})]) }

InitFilter ==
    /\ pc = "call"
    /\ args \in {[words |-> ws, must_have |-> mh, excluded |-> ex,
                  pattern |-> pt, antipattern_constraints |-> ap] :
                    ws \in Corpora, mh \in RequiredSets, ex \in ExcludedSets,
                    pt \in Patterns, ap \in Antipatterns}
    /\ ret = None
    /\ NoHost

CallFilterWords ==
    /\ pc = "call"
    /\ ret' = filter_words(args.words, args.must_have, args.excluded,
                           args.pattern, args.antipattern_constraints)
    /\ pc' = "return"
    /\ UNCHANGED <<args, hostVars>>

NextFilter == CallFilterWords

SpecFilter == InitFilter /\ [][NextFilter]_vars

\* The four predicates of a match, each said of the word itself.
HasNoExcluded(w, excluded) == set(w) \cap excluded = {}

HasAllRequired(w, must_have) == must_have \subseteq set(w)

FitsPattern(w, pattern) ==
    IsNone(pattern) \/
        \A k \in 1..WordLen : Get(pattern)[k] = "_" \/ w[k] = Get(pattern)[k]

AvoidsAntipattern(w, antipattern_constraints) ==
    IsNone(antipattern_constraints) \/
        \A k \in 1..WordLen :
            IsNone(Get(antipattern_constraints)[k])
                \/ w[k] \notin Get(Get(antipattern_constraints)[k])

Satisfies(w, a) ==
    /\ HasNoExcluded(w, a.excluded)
    /\ HasAllRequired(w, a.must_have)
    /\ FitsPattern(w, a.pattern)
    /\ AvoidsAntipattern(w, a.antipattern_constraints)

\* C1: every word filter_words returns holds no excluded letter, holds every
\* required letter, has the pattern's letter at each fixed position and at no
\* position a letter the antipattern forbids there.
C1_MatchesSatisfyConstraints ==
    pc = "return" =>
        \A i \in DOMAIN ret.result : Satisfies(ret.result[i], args)

\* C1's case: all four constraints are set, a word is returned and another
\* rejected.
C1_Witness ==
    /\ pc = "return"
    /\ args.excluded # {}
    /\ args.must_have # {}
    /\ ~IsNone(args.pattern)
    /\ \E k \in 1..WordLen : Get(args.pattern)[k] # "_"
    /\ ~IsNone(args.antipattern_constraints)
    /\ ret.result # <<>>
    /\ Len(ret.result) < Len(args.words)

ConflictsOf(a) ==
    check_conflicts(a.pattern, a.must_have, a.excluded, a.antipattern_constraints)

\* The letters of the constraint sets enumerated, and one that none of them
\* names.
WordLetters == {"k", "o", "sh", "a", "m", "y", "p", "t"}

\* Every word over WordLetters that has the pattern's letters at its fixed
\* positions (every word over them when there is no pattern).
WordsFitting(pattern) ==
    LET free == {i \in 1..WordLen : IsNone(pattern) \/ Get(pattern)[i] = "_"}
    IN {[i \in 1..WordLen |-> IF i \in free THEN fill[i] ELSE Get(pattern)[i]] :
            fill \in [free -> WordLetters]}

\* C2: when check_conflicts reports a conflict for a constraint set, no word
\* satisfies the four predicates under it (no word of the lexicon, and no word
\* at all that fits the pattern) and filter_words returns the empty list for
\* every corpus.
C2_ConflictMeansNoMatch ==
    (pc = "return" /\ ConflictsOf(args) # <<>>) =>
        /\ ret.result = <<>>
        /\ \A w \in Lexicon : ~Satisfies(w, args)
        /\ args.words = <<>> => \A w \in WordsFitting(args.pattern) : ~Satisfies(w, args)

\* C2's case: check_conflicts reports three conflicts, the lack of free positions
\* among them, for a corpus that is not empty.
C2_Witness ==
    /\ pc = "return"
    /\ args.words # <<>>
    /\ Len(ConflictsOf(args)) >= 3
    /\ \E i \in DOMAIN ConflictsOf(args) :
          ConflictsOf(args)[i][1] = "Not enough free positions"
    /\ ret.result = <<>>

\* The first predicate a word fails in the order excluded, required, pattern,
\* antipattern, each said of the word itself; "match" when it fails none.
FirstFailure(w, a) ==
    IF ~HasNoExcluded(w, a.excluded) THEN "excluded"
    ELSE IF ~HasAllRequired(w, a.must_have) THEN "must_have"
    ELSE IF ~FitsPattern(w, a.pattern) THEN "pattern"
    ELSE IF ~AvoidsAntipattern(w, a.antipattern_constraints) THEN "antipattern"
    ELSE "match"

\* The corpus positions whose word fails first under the given predicate.
RejectedBy(a, kind) == {i \in DOMAIN a.words : FirstFailure(a.words[i], a) = kind}

\* C13: filter_words counts each rejected word once, under the first predicate
\* it fails in the order excluded, required, pattern, antipattern; the four
\* counts and the number of matches add up to the corpus size; an absent
\* constraint (empty set, no pattern, no antipattern) counts nothing, and with
\* every constraint absent the corpus is returned whole.
C13_StatsPartitionCorpus ==
    pc = "return" =>
        LET st == ret.filtered_stats
        IN /\ \A kind \in {"excluded", "must_have", "pattern", "antipattern"} :
                 st[kind] = Cardinality(RejectedBy(args, kind))
           /\ st.excluded + st.must_have + st.pattern + st.antipattern
                 + Len(ret.result) = Len(args.words)
           /\ args.excluded = {} => st.excluded = 0
           /\ args.must_have = {} => st.must_have = 0
           /\ IsNone(args.pattern) => st.pattern = 0
           /\ IsNone(args.antipattern_constraints) => st.antipattern = 0
           /\ (/\ args.excluded = {}
               /\ args.must_have = {}
               /\ IsNone(args.pattern)
               /\ IsNone(args.antipattern_constraints)) => ret.result = args.words

\* C13's case: a word that fails both the excluded and the required predicate
\* is counted under the excluded one only, next to a word counted under the
\* required one and a match.
C13_Witness ==
    /\ pc = "return"
    /\ \E i \in RejectedBy(args, "excluded") :
          ~HasAllRequired(args.words[i], args.must_have)
    /\ ret.filtered_stats.excluded = 1
    /\ ret.filtered_stats.must_have = 1
    /\ Len(ret.result) = 1

\* a is b with some elements left out, the order kept.
RECURSIVE IsSubsequence(_, _)
IsSubsequence(a, b) ==
    IF a = <<>> THEN TRUE
    ELSE IF b = <<>> THEN FALSE
    ELSE IF Head(a) = Head(b) THEN IsSubsequence(Tail(a), Tail(b))
    ELSE IsSubsequence(a, Tail(b))

\* C10: filter_words returns its matches in corpus order (a subsequence of the
\* corpus), and filtering the returned list again with the same constraints
\* returns the same list.
C10_OrderKeptAndIdempotent ==
    pc = "return" =>
        /\ IsSubsequence(ret.result, args.words)
        /\ filter_words(ret.result, args.must_have, args.excluded, args.pattern,
                        args.antipattern_constraints).result = ret.result

\* C10's case: the first and the last word of a corpus of three are returned
\* and the middle one is rejected.
C10_Witness ==
    /\ pc = "return"
    /\ Len(args.words) = 3
    /\ ret.result = <<args.words[1], args.words[3]>>
    /\ args.must_have # {}

----------------------------------------------------------------------------
(* Spec: the hosts, bot.py search_words and examples/cli.py main *)

\* Most tokens of a request to a host.
MaxArgs == 2

\* The tokens of the requests: the pool, a ban of the letter a pattern of the
\* pool fixes, and six required letters.
RequestTokens ==
    TokenPool \cup { <<"2", "o">>, <<"+", "k", "m", "y", "sh", "a", "p">> }

Requests == SeqsUpTo(RequestTokens, MaxArgs)

Line(w, z) == [word |-> w, zipf |-> z]

shyopot == <<"sh", "yo", "p", "o", "t">>

\* Lexicon files, as the lines load_lexicon reads: scored and unscored words, a
\* word written twice (once with a capital) and a word with the accented variant.
LexiconFiles ==
    { <<Line(koshka, Some(5)), Line(myshka, None), Line(pyshka, Some(3))>>,
      <<Line(koshka, None), Line(myshka, None), Line(pyshka, None)>>,
      <<Line(<<"K", "o", "sh", "k", "a">>, Some(4)), Line(koshka, Some(5)),
        Line(shyopot, Some(2))>> }

\* bot.py:48-55 and cli.py:83-88: the lexicon is loaded before any request is
\* parsed; cli.py:57: --sort is one of three modes, or absent.
InitHost ==
    /\ pc = "idle"
    /\ \E f \in LexiconFiles :
          /\ WORDS = load_lexicon(f).all_words
          /\ FREQ_MAP = load_lexicon(f).freq_map
    /\ \/ host = "bot" /\ sort_mode = None
       \/ host = "cli" /\ sort_mode \in {None, Some("freq"), Some("alpha"), Some("none")}
    /\ text = <<>>
    /\ params = None
    /\ filtered_words = None
    /\ fstats = None
    /\ reply = None
    /\ args = None
    /\ ret = None

\* bot.py:118-122: the message text is stripped; an empty one is answered at once.
BotReceive(message) ==
    /\ pc = "idle"
    /\ host = "bot"
    /\ text' = strip(message)
    /\ IF strip(message) = <<>>
       THEN pc' = "done" /\ reply' = Some("empty query")
       ELSE pc' = "parse" /\ reply' = None
    /\ UNCHANGED <<args, ret, host, sort_mode, WORDS, FREQ_MAP, params,
                   filtered_words, fstats>>

\* cli.py:74-80: argv is args.args, the positional arguments argparse returns (a
\* dash-led token reaches it only after a "--"); without any main returns, else
\* they are joined by spaces.
CliStart(argv) ==
    /\ pc = "idle"
    /\ host = "cli"
    /\ IF argv = <<>>
       THEN pc' = "done" /\ reply' = Some("no parameters") /\ text' = text
       ELSE pc' = "parse" /\ reply' = None /\ text' = join(argv)
    /\ UNCHANGED <<args, ret, host, sort_mode, WORDS, FREQ_MAP, params,
                   filtered_words, fstats>>

\* bot.py:125 and cli.py:91: get_search_params parses and validates the query;
\* an exception it raises ends the handler.  The bot then answers nothing
\* (bot.py:191-193 only logs); the cli ends in a traceback, its answer "error".
Parse ==
    /\ pc = "parse"
    /\ LET r == get_search_params(text)
       IN IF r.raised
          THEN /\ pc' = "raised"
               /\ params' = None
               /\ reply' = IF host = "bot" THEN None ELSE Some("error")
          ELSE pc' = "check" /\ params' = Some(r.value) /\ reply' = reply
    /\ UNCHANGED <<args, ret, host, sort_mode, WORDS, FREQ_MAP, text,
                   filtered_words, fstats>>

\* bot.py:128-134 and cli.py:101-106: conflicts are reported and the handler
\* returns.
ReportConflicts ==
    /\ pc = "check"
    /\ Get(params).conflicts # <<>>
    /\ reply' = Some("conflicts")
    /\ pc' = "done"
    /\ UNCHANGED <<args, ret, host, sort_mode, WORDS, FREQ_MAP, text, params,
                   filtered_words, fstats>>

\* A host that filters whatever the conflict list holds.
FilterUnchecked ==
    /\ pc = "check"
    /\ LET r == filter_words(WORDS, Get(params).must_have, Get(params).excluded,
                             Get(params).pattern,
                             Get(params).antipattern_constraints)
       IN /\ filtered_words' = Some(r.result)
          /\ fstats' = Some(r.filtered_stats)
    /\ pc' = "sort"
    /\ UNCHANGED <<args, ret, host, sort_mode, WORDS, FREQ_MAP, text, params,
                   reply>>

\* bot.py:137-143 and cli.py:109-115: filter_words is called, past the check of
\* the conflicts.
Filter ==
    /\ pc = "check"
    /\ Get(params).conflicts = <<>>
    /\ LET r == filter_words(WORDS, Get(params).must_have, Get(params).excluded,
                             Get(params).pattern,
                             Get(params).antipattern_constraints)
       IN /\ filtered_words' = Some(r.result)
          /\ fstats' = Some(r.filtered_stats)
    /\ pc' = "sort"
    /\ UNCHANGED <<args, ret, host, sort_mode, WORDS, FREQ_MAP, text, params,
                   reply>>

\* bot.py:146-147: the bot sorts by frequency when it has a table.
bot_sort(ws) ==
    IF DOMAIN FREQ_MAP # {} THEN sort_by_frequency(ws, FREQ_MAP) ELSE ws

\* cli.py:125-143: the sort mode defaults to the table's presence.
cli_sort(ws) ==
    LET mode == IF ~IsNone(sort_mode) THEN Get(sort_mode)
                ELSE IF DOMAIN FREQ_MAP # {} THEN "freq" ELSE "alpha"
    IN IF mode = "freq"
       THEN IF DOMAIN FREQ_MAP # {} THEN sort_by_frequency(ws, FREQ_MAP)
            ELSE sorted(ws)
       ELSE IF mode = "alpha" THEN sorted(ws)
       ELSE ws

\* bot.py:146-188 and cli.py:125-151: the matches are ranked and answered.
Sort ==
    /\ pc = "sort"
    /\ filtered_words' = Some(IF host = "bot" THEN bot_sort(Get(filtered_words))
                              ELSE cli_sort(Get(filtered_words)))
    /\ reply' = IF Get(filtered_words) = <<>> THEN Some("no words found")
                ELSE Some("words")
    /\ pc' = "done"
    /\ UNCHANGED <<args, ret, host, sort_mode, WORDS, FREQ_MAP, text, params,
                   fstats>>

\* bot.py:245: the bot serves the next message with fresh locals (an exception
\* is logged by bot.py:191-193 error_handler).
NextMessage ==
    /\ pc \in {"done", "raised"}
    /\ host = "bot"
    /\ pc' = "idle"
    /\ text' = <<>>
    /\ params' = None
    /\ filtered_words' = None
    /\ fstats' = None
    /\ reply' = None
    /\ UNCHANGED <<args, ret, host, sort_mode, WORDS, FREQ_MAP>>

Next ==
    \/ \E q \in Requests : BotReceive(join(q))
    \/ \E t \in SpacedTexts : BotReceive(t)
    \/ \E q \in Requests : CliStart(q)
    \/ Parse
    \/ ReportConflicts
    \/ Filter
    \/ Sort
    \/ NextMessage

Spec == InitHost /\ [][Next]_vars

ScenarioCorpus == <<koshka, myshka, pyshka>>

\* The query: "+", U+043A, space, "_", U+043E, "_", "_", "_".
ScenarioQuery == <<"+", "k", " ", "_", "o", "_", "_", "_">>

ScenarioFiltered ==
    /\ pc = "sort"
    /\ WORDS = ScenarioCorpus
    /\ text = ScenarioQuery

\* C7 as stated: for the corpus (koshka, myshka, pyshka) and the query above,
\* parsing then filtering returns the empty list and the pattern rejects all
\* three words.
C7_ScenarioAsStated ==
    ScenarioFiltered =>
        /\ Get(filtered_words) = <<>>
        /\ Get(fstats).pattern = 3

\* C7, amended: for that corpus and query, parsing then filtering returns the
\* one word koshka (its second letter is the one the pattern fixes) and the
\* pattern rejects the two other words; no other predicate rejects a word.
C7_ScenarioAsComputed ==
    ScenarioFiltered =>
        /\ Get(params).must_have = {"k"}
        /\ Get(params).pattern = Some(<<"_", "o", "_", "_", "_">>)
        /\ Get(filtered_words) = <<koshka>>
        /\ Get(fstats) = [ZeroStats EXCEPT !.pattern = 2]

\* C7's case: the hosts have filtered the scenario's corpus by the scenario's
\* query.
C7_Witness ==
    /\ ScenarioFiltered
    /\ ~IsNone(filtered_words)
    /\ ~IsNone(fstats)

\* C8: a host never calls filter_words for a query whose conflict list is not
\* empty: the filtered list exists only after the query was parsed and found
\* free of conflicts, and a request with conflicts ends with the conflicts
\* reported and nothing filtered or ranked.
C8_NoFilteringOnConflict ==
    /\ ~IsNone(filtered_words) =>
          (~IsNone(params) /\ Get(params).conflicts = <<>>)
    /\ pc = "sort" => (~IsNone(filtered_words) /\ ~IsNone(fstats))
    /\ (~IsNone(params) /\ Get(params).conflicts # <<>>) =>
          /\ pc \in {"check", "done"}
          /\ IsNone(filtered_words)
          /\ IsNone(fstats)
          /\ pc = "done" => reply = Some("conflicts")

\* C8's case: a request whose query has conflicts has been answered.
C8_Witness ==
    /\ pc = "done"
    /\ ~IsNone(params)
    /\ Get(params).conflicts # <<>>
    /\ reply = Some("conflicts")
    /\ IsNone(filtered_words)

----------------------------------------------------------------------------
(* SpecConflicts: calls of check_conflicts *)

\* Most letters of a required set.
MaxRequired == 5

\* Letters a required set is drawn from: none of them is a pattern letter of
\* ConflictPatterns but "a".
RequiredPool == <<"a", "m", "sh", "p", "o", "t", "y">>

ConflictRequiredSets == SUBSET {RequiredPool[i] : i \in 1..MaxRequired}

\* No pattern, the empty string, and every 5-character pattern over two letters
\* and "_": a letter may be fixed at several positions.
ConflictPatterns ==
    {None, Some(<<>>)} \cup {Some(p) : p \in [1..WordLen -> {"k", "a", "_"}]}

ConflictExcludedSets == SUBSET {"k", "o"}

\* No antipattern, the empty list, and lists of 5 slots.
ConflictAntipatterns ==
    { None,
      Some(<<>>),
      Some([NoConstraints EXCEPT ![1] = Some({"k"})]),
      Some([NoConstraints EXCEPT ![1] = Some({"k"}), ![2] = Some({"a"})]),
      Some([i \in 1..WordLen |-> Some({"k", "a"})]) }

InitConflicts ==
    /\ pc = "call"
    /\ args \in {[pattern |-> pt, must_have |-> mh, excluded |-> ex,
                  antipattern_constraints |-> ap] :
                    pt \in ConflictPatterns, mh \in ConflictRequiredSets,
                    ex \in ConflictExcludedSets, ap \in ConflictAntipatterns}
    /\ ret = None
    /\ NoHost

CallCheckConflicts ==
    /\ pc = "call"
    /\ ret' = check_conflicts(args.pattern, args.must_have, args.excluded,
                              args.antipattern_constraints)
    /\ pc' = "return"
    /\ UNCHANGED <<args, hostVars>>

NextConflicts == CallCheckConflicts

SpecConflicts == InitConflicts /\ [][NextConflicts]_vars

\* The pattern as a string: no pattern reads as the empty string.
PatternText(pattern) == IF IsNone(pattern) THEN <<>> ELSE Get(pattern)

\* The positions a pattern fixes and the positions it leaves open.
FixedPositions(pattern) ==
    {i \in DOMAIN PatternText(pattern) : PatternText(pattern)[i] # "_"}

OpenPositions(pattern) ==
    IF PatternText(pattern) = <<>> THEN WordLen
    ELSE Cardinality({i \in DOMAIN PatternText(pattern) :
                         PatternText(pattern)[i] = "_"})

\* The required letters no pattern position fixes.
UnplacedRequired(pattern, must_have) ==
    must_have \ {PatternText(pattern)[i] : i \in FixedPositions(pattern)}

\* The messages of one kind in a list of conflict messages.
MessagesOfKind(msgs, kind) == {i \in DOMAIN msgs : msgs[i][1] = kind}

\* C11: check_conflicts reports "not enough free positions" exactly when the
\* required letters that no pattern position fixes outnumber the "_" positions
\* of the pattern (5 without a pattern), also when the pattern fixes one letter
\* at several positions.
C11_SpaceConflictExact ==
    pc = "return" =>
        ((MessagesOfKind(ret, "Not enough free positions") # {})
           <=> (Cardinality(UnplacedRequired(args.pattern, args.must_have))
                   > OpenPositions(args.pattern)))

\* The three checks, each said of the arguments themselves.
ExcludedApplies(a) ==
    {PatternText(a.pattern)[i] : i \in FixedPositions(a.pattern)} \cap a.excluded # {}

ForbiddenPositions(a) ==
    {i \in FixedPositions(a.pattern) :
        /\ ~IsNone(a.antipattern_constraints)
        /\ i \in DOMAIN Get(a.antipattern_constraints)
        /\ ~IsNone(Get(a.antipattern_constraints)[i])
        /\ PatternText(a.pattern)[i] \in Get(Get(a.antipattern_constraints)[i])}

SpaceApplies(a) ==
    Cardinality(UnplacedRequired(a.pattern, a.must_have)) > OpenPositions(a.pattern)

ToNat(b) == IF b THEN 1 ELSE 0

ChecksApplying(a) ==
    ToNat(ExcludedApplies(a)) + ToNat(ForbiddenPositions(a) # {})
      + ToNat(SpaceApplies(a))

\* C12 as stated: each of the three checks that applies contributes exactly one
\* message, so check_conflicts returns at most 3 messages and as many as there
\* are checks that apply.
C12_OneMessagePerCheck ==
    pc = "return" => Len(ret) <= 3 /\ Len(ret) = ChecksApplying(args)

\* C12 as amended: the excluded-letter check contributes one message exactly
\* when it applies, the antipattern check one message for each fixed position
\* whose letter is forbidden there, the space check at most one message and
\* none unless it applies; the list holds these messages and no other, so at
\* most 2 + 5 of them, whatever the other checks found.
C12_MessagesPerCheck ==
    pc = "return" =>
        LET first == MessagesOfKind(ret, "Pattern requires excluded letters")
            second == MessagesOfKind(ret, "Position forbidden by antipattern")
            third == MessagesOfKind(ret, "Not enough free positions")
        IN /\ Cardinality(first) = ToNat(ExcludedApplies(args))
           /\ Cardinality(second) = Cardinality(ForbiddenPositions(args))
           /\ \A i \in ForbiddenPositions(args) :
                 \E j \in second :
                    ret[j] = <<"Position forbidden by antipattern", i,
                               PatternText(args.pattern)[i]>>
           /\ Cardinality(third) <= 1
           /\ third # {} => SpaceApplies(args)
           /\ Len(ret) = Cardinality(first) + Cardinality(second)
                            + Cardinality(third)
           /\ Len(ret) <= WordLen + 2

\* A call that returns more than three messages, two of them for two forbidden
\* positions, next to the messages of the other two checks.
C12_Witness ==
    /\ pc = "return"
    /\ Len(ret) > 3
    /\ Cardinality(ForbiddenPositions(args)) >= 2
    /\ ExcludedApplies(args)
    /\ MessagesOfKind(ret, "Not enough free positions") # {}

----------------------------------------------------------------------------
(* SpecPrefixes: filter_words and get_search_prefixes called with the same
   pattern, excluded set and antipattern *)

\* Most words of a corpus.
MaxPrefixCorpus == 2

\* Words over the 32 letters that differ in their first letter or their second.
PrefixLexicon ==
    {<<c, d, "sh", "k", "a">> : c \in {"k", "m", "o", "ya"}, d \in {"o", "y"}}

PrefixCorpora == InjectiveSeqsUpTo(PrefixLexicon, MaxPrefixCorpus)

\* No pattern, the empty string, and patterns that fix the first position, the
\* second, both or none; "yo" is a letter outside the 32.
PrefixPatterns ==
    {None, Some(<<>>)}
      \cup {Some(<<c, d, "_", "_", "_">>) :
                c \in {"_", "k", "m", "yo"}, d \in {"_", "o"}}

PrefixExcludedSets == SUBSET {"k", "y"}

PrefixRequiredSets == {{}, {"k"}}

PrefixAntipatterns ==
    { None,
      Some([NoConstraints EXCEPT ![1] = Some({"k", "m"})]),
      Some([NoConstraints EXCEPT ![1] = Some({})]),
      Some([NoConstraints EXCEPT ![2] = Some({"o"})]),
      Some([NoConstraints EXCEPT ![1] = Some({"ya"}), ![3] = Some({"t"})]) }

InitPrefixes ==
    /\ pc = "call"
    /\ args \in {[words |-> ws, must_have |-> mh, excluded |-> ex,
                  pattern |-> pt, antipattern_constraints |-> ap] :
                    ws \in PrefixCorpora, mh \in PrefixRequiredSets,
                    ex \in PrefixExcludedSets, pt \in PrefixPatterns,
                    ap \in PrefixAntipatterns}
    /\ ret = None
    /\ NoHost

\* filter_words is called first; its list is kept in filtered_words.
PrefixCallFilterWords ==
    /\ pc = "call"
    /\ filtered_words' = Some(filter_words(args.words, args.must_have,
                                           args.excluded, args.pattern,
                                           args.antipattern_constraints).result)
    /\ pc' = "prefixes"
    /\ UNCHANGED <<args, ret, host, sort_mode, WORDS, FREQ_MAP, text, params,
                   fstats, reply>>

\* get_search_prefixes is then called with the same pattern, excluded set and
\* antipattern; its set is kept in ret.
CallGetSearchPrefixes ==
    /\ pc = "prefixes"
    /\ ret' = get_search_prefixes(args.pattern, args.excluded,
                                  args.antipattern_constraints)
    /\ pc' = "return"
    /\ UNCHANGED <<args, hostVars>>

NextPrefixes == PrefixCallFilterWords \/ CallGetSearchPrefixes

SpecPrefixes == InitPrefixes /\ [][NextPrefixes]_vars

\* C14: the first letter of every word filter_words returns is in the set
\* get_search_prefixes returns for the same pattern, excluded set and
\* antipattern; so when that set is empty, filter_words returns no word.
C14_PrefixesCoverMatches ==
    pc = "return" =>
        /\ \A i \in DOMAIN Get(filtered_words) : Get(filtered_words)[i][1] \in ret
        /\ ret = {} => Get(filtered_words) = <<>>

\* C14's case: a word is returned and another, whose first letter the prefix
\* set leaves out, is rejected, under an excluded set and an antipattern that
\* bans letters at the first position.
C14_Witness ==
    /\ pc = "return"
    /\ Get(filtered_words) # <<>>
    /\ args.excluded # {}
    /\ ~IsNone(args.antipattern_constraints)
    /\ ~IsNone(Get(args.antipattern_constraints)[1])
    /\ Get(Get(args.antipattern_constraints)[1]) # {}
    /\ \E i \in DOMAIN args.words : args.words[i][1] \notin ret
    /\ ret # {}
    /\ ret # russian_alphabet

====
